---- MODULE Spec2Model ----
(***************************************************************************)
(* Model of src/mcp-server-python/server.py: the request/response         *)
(* coordination core of the Ask Continue MCP server.                      *)
(*                                                                         *)
(* Two execution contexts are modelled:                                    *)
(*   (a) the asyncio event loop: the request_user_input coroutines (one   *)
(*       per tool call), the loop's ready queue of call_soon_threadsafe   *)
(*       callbacks, and main();                                            *)
(*   (b) the callback thread: start_callback_server and, once bound, the  *)
(*       single-threaded HTTPServer running CallbackHandler.do_POST.      *)
(* A coroutine runs atomically between two awaits as far as context (a)   *)
(* is concerned; the handler of context (b) interleaves with it at every  *)
(* access to the shared dict pending_requests.                             *)
(*                                                                         *)
(* Python strings are modelled as sequences of string tokens, so that     *)
(* formatting (f-strings, str(e)) is computed and never the identity.     *)
(***************************************************************************)
EXTENDS Integers, Sequences, FiniteSets, TLC

(***************************************************************************)
(* Program constants.                                                      *)
(***************************************************************************)
DEFAULT_EXTENSION_PORT == 23983
CALLBACK_PORT_START == 23984
MAX_RETRY_COUNT == 5
RETRY_INTERVAL == 5
max_retries == 50

(***************************************************************************)
(* Bounds of the model.                                                    *)
(***************************************************************************)
\* number of askAndWait (request_user_input) calls the tool caller makes
NumReq == 2
\* number of marker files in the port-file directory
MaxFiles == 2

Reqs == 1..NumReq

\* uuid.uuid4().hex[:12] values, abstracted to small integers
UuidSpace == 1..NumReq

\* f"req_{uuid.uuid4().hex[:12]}"
ReqIdOf(u) == <<"req_", u>>

\* an id no request of this process carries
UnknownId == <<"req_", 0>>

\* userInput texts a companion sends
Texts == {<<>>, <<"go on">>}

\* Python None where a string may stand
None == <<"None">>

(***************************************************************************)
(* State.                                                                  *)
(***************************************************************************)
VARIABLES
    \* ---- module globals (lines 29-37)
    current_callback_port,  \* line 30
    callback_server_ready,  \* line 32, the Event's flag
    pending_requests,       \* line 35, dict: request id -> future (by request)
    main_loop,              \* line 37, TRUE once set (line 256)
    \* ---- main() and the callback thread
    mainPc,                 \* "init" | "waiting" | "serving"
    warned,                 \* line 264 was printed
    lpc,                    \* "notstarted" | "binding" | "serving" | "failed" | "exhausted"
    bindPort,               \* local port of start_callback_server
    bindI,                  \* loop variable i of start_callback_server
    boundPort,              \* port of the HTTPServer socket, 0 when none
    \* ---- environment
    markerDir,              \* PORT_FILE_DIR on disk
    told,                   \* r -> callbackPort a companion learnt with r's id, 0 when none
    live,                   \* ports on which a companion listens that accepts every /ask
    \* ---- request_user_input, one coroutine per request
    pc,                     \* "idle" | "posting" | "sleeping" | "awaiting" |
                            \* "answered" | "cancelled" | "connect_failed"
    request_id,             \* line 205
    future,                 \* line 209: <<"pending">> | <<"result", text>> | <<"exception", text>>
    attempt,                \* line 218
    extension_ports,        \* line 157
    idx,                    \* position of `for port in extension_ports` (line 162)
    try_last_error,         \* last_error of try_connect_extension (line 160)
    last_error,             \* last_error of request_user_input (line 216)
    callbackPort,           \* "callbackPort" of the /ask body in flight (line 171)
    ret,                    \* returned tuple <<success, value>>
    \* ---- the event loop's ready queue (call_soon_threadsafe)
    ready,
    \* ---- CallbackHandler.do_POST (one at a time: HTTPServer is single-threaded)
    hpc,                    \* "idle" | "checked" | "popped"
    h_request_id, h_user_input, h_cancelled, h_future,
    lastResp,               \* the latest callback and its reply: [body, id, status]
    \* ---- history (never read by the actions' guards or assignments)
    accepted,               \* r -> a candidate answered 200 with success
    slept,                  \* r -> seconds spent in asyncio.sleep
    resolutions,            \* r -> number of times r's future was set
    acked,                  \* r -> <<>> or <<[cancelled, text]>> of the callback answered 200
    observed,               \* r -> the latest error a candidate of r gave, None when none did
    offered                 \* r -> the ports discoverable and live ever since r's round began

globalVars == <<current_callback_port, callback_server_ready, pending_requests, main_loop>>
bootVars == <<mainPc, warned, lpc, bindPort, bindI, boundPort>>
envVars == <<markerDir, told, live>>
reqVars == <<pc, request_id, future, attempt, extension_ports, idx, try_last_error,
             last_error, callbackPort, ret>>
handlerVars == <<hpc, h_request_id, h_user_input, h_cancelled, h_future, lastResp>>
histVars == <<accepted, slept, resolutions, acked, observed, offered>>
vars == <<globalVars, bootVars, envVars, reqVars, ready, handlerVars, histVars>>

(***************************************************************************)
(* PortDiscovery: discover_extension_ports (lines 122-142).               *)
(* A marker directory is [exists, files]; a file is [suffix, kind, port]: *)
(* suffix says whether its name ends with ".port", kind is "garbage" (not *)
(* JSON), "nonobject" (JSON, but no object: data.get raises) or "object", *)
(* and port is data.get("port"), 0 standing for a missing, null or zero    *)
(* value (all falsy at line 135).                                          *)
(***************************************************************************)
RECURSIVE PortsOf(_)
PortsOf(files) ==
    IF files = <<>> THEN <<>>
    ELSE LET f == Head(files)
             rest == PortsOf(Tail(files))
         IN  IF f.suffix /\ f.kind = "object" /\ f.port # 0
             THEN <<f.port>> \o rest
             ELSE rest

discover_extension_ports(dir) ==
    LET ports == IF dir.exists THEN PortsOf(dir.files) ELSE <<>>
    IN  IF ports = <<>> THEN <<DEFAULT_EXTENSION_PORT>> ELSE ports

\* line 157: the candidates of a round are discovered anew; the list of the
\* round before (cached) plays no part
PortsForRoundCached(cached, dir) ==
    IF cached = <<>> THEN discover_extension_ports(dir) ELSE cached
PortsForRound(cached, dir) == discover_extension_ports(dir)

\* the ports of a candidate list
RangeOf(ports) == {ports[i] : i \in 1..Len(ports)}

(***************************************************************************)
(* ConnectAttempt: one POST of try_connect_extension (lines 163-194).     *)
(* The companion's side of it is the outcome:                              *)
(*   "accept"        200, JSON with success true         (lines 176-180)  *)
(*   "noflag"        200, JSON without a true success    (falls through)  *)
(*   "error500"      500, JSON {error, details}          (lines 181-185)  *)
(*   "otherstatus"   any other status                    (falls through)  *)
(*   "connect_error" httpx.ConnectError                  (lines 186-188)  *)
(*   "timeout"       httpx.TimeoutException              (lines 189-191)  *)
(*   "exception"     any other exception                 (lines 192-194)  *)
(***************************************************************************)
Outcomes == {"accept", "noflag", "error500", "otherstatus", "connect_error",
             "timeout", "exception"}

\* the outcomes that are an HTTP answer, and the status and the "success" of
\* its body ("otherstatus": a status that is neither 200 nor 500, be it 2xx
\* and with a true success, as in 201 {"success": true})
Responded(o) == o \in {"accept", "noflag", "error500", "otherstatus"}
ResponseOf(o) ==
    CASE o = "accept" -> [status_code |-> 200, success |-> TRUE]
      [] o = "noflag" -> [status_code |-> 200, success |-> FALSE]
      [] o = "error500" -> [status_code |-> 500, success |-> FALSE]
      [] o = "otherstatus" -> [status_code |-> 201, success |-> TRUE]

\* lines 176-180: success needs status 200 and a true "success" in the body
IsAcceptedAny200(o) == Responded(o) /\ ResponseOf(o).status_code = 200
IsAccepted(o) ==
    Responded(o) /\ ResponseOf(o).status_code = 200 /\ ResponseOf(o).success

\* the outcomes in which a companion received the /ask body (id and callbackPort)
Reached(o) == o \in {"accept", "noflag", "error500", "otherstatus", "timeout"}

\* last_error after one candidate (lines 183, 187, 190, 193); prev when untouched
ErrorAfter(o, port, prev) ==
    CASE o = "error500" -> <<"extension returned error: ", "busy", " - ", "">>
      [] o = "connect_error" -> <<"cannot connect to port ", ToString(port)>>
      [] o = "timeout" -> <<"connect to port ", ToString(port), " timed out">>
      [] o = "exception" -> <<"exception text">>
      [] OTHER -> prev

\* line 236: f"...（已重试 {MAX_RETRY_COUNT} 次）。{last_error or ''}"
ErrorMsg(err) ==
    <<"cannot connect to VS Code extension (retried ", ToString(MAX_RETRY_COUNT),
      " times).">> \o (IF err = None THEN <<>> ELSE err)

\* line 69: str(Exception("用户取消了对话"))
CancelText == <<"user cancelled the conversation">>

\* line 228: a sleep follows a failed round unless it was the last one
ShouldSleepOff(a) == a <= MAX_RETRY_COUNT
ShouldSleep(a) == a < MAX_RETRY_COUNT

\* line 218: range(1, MAX_RETRY_COUNT + 1) has a next value after a
HasNextAttemptShort(a) == a + 1 < MAX_RETRY_COUNT
HasNextAttempt(a) == a + 1 <= MAX_RETRY_COUNT

(***************************************************************************)
(* RequestRegistry: the dict pending_requests.                            *)
(***************************************************************************)
\* line 65: request_id in pending_requests
RegistryHas(reg, id) == id \in DOMAIN reg

\* line 210: pending_requests[request_id] = future
RegistryPut(reg, id, f) == [k \in DOMAIN reg \cup {id} |-> IF k = id THEN f ELSE reg[k]]

\* line 66: the future pop(request_id) returns, for an id that is in the dict
RegistryGetAny(reg, id) == reg[CHOOSE k \in DOMAIN reg : k # id \/ DOMAIN reg = {id}]
RegistryGet(reg, id) == reg[id]

\* line 66: the dict after pop(request_id), for an id that is in it
RegistryPopKeeps(reg, id) == reg
RegistryPopClears(reg, id) == << >>
RegistryPop(reg, id) == [k \in DOMAIN reg \ {id} |-> reg[k]]

\* line 235: the dict after pop(request_id, None), whether the id is in it or not
RegistryPopDefaultKeeps(reg, id) == reg
RegistryPopDefault(reg, id) == [k \in DOMAIN reg \ {id} |-> reg[k]]

\* lines 68-71: the call handed to the event loop for a found request
ResolutionDropsText(fut, cancelled, user_input) ==
    IF cancelled
    THEN [fut |-> fut, kind |-> "set_exception", val |-> CancelText]
    ELSE [fut |-> fut, kind |-> "set_result", val |-> <<>>]
ResolutionNeverCancels(fut, cancelled, user_input) ==
    [fut |-> fut, kind |-> "set_result", val |-> user_input]
Resolution(fut, cancelled, user_input) ==
    IF cancelled
    THEN [fut |-> fut, kind |-> "set_exception", val |-> CancelText]
    ELSE [fut |-> fut, kind |-> "set_result", val |-> user_input]

\* asyncio.Future.set_result / set_exception applied to a future
FutureSet(f, call) ==
    IF call.kind = "set_result" THEN <<"result", call.val>> ELSE <<"exception", call.val>>

\* lines 243-247: the value of `await future` mapped to the returned tuple
AwaitReturn(f) == IF f[1] = "result" THEN <<TRUE, f[2]>> ELSE <<FALSE, f[2]>>

\* the pc of a request that returned r
PcOfReturn(f) == IF f[1] = "result" THEN "answered" ELSE "cancelled"

(***************************************************************************)
(* main() (lines 250-266) and start_callback_server (lines 93-119).       *)
(***************************************************************************)
\* lines 256-260: save the loop, start the callback thread
MainStart ==
    /\ mainPc = "init"
    /\ main_loop' = TRUE
    /\ mainPc' = "waiting"
    /\ lpc' = "binding"
    /\ bindPort' = CALLBACK_PORT_START
    /\ bindI' = 0
    /\ UNCHANGED <<current_callback_port, callback_server_ready, pending_requests, warned,
                   boundPort, envVars, reqVars, ready, handlerVars, histVars>>

\* line 263: callback_server_ready.wait(timeout=5.0) returns True
MainReady ==
    /\ mainPc = "waiting"
    /\ callback_server_ready
    /\ mainPc' = "serving"
    /\ UNCHANGED <<globalVars, warned, lpc, bindPort, bindI, boundPort, envVars, reqVars,
                   ready, handlerVars, histVars>>

\* lines 263-264: the wait times out, a warning is printed, main goes on
MainTimeout ==
    /\ mainPc = "waiting"
    /\ ~callback_server_ready
    /\ mainPc' = "serving"
    /\ warned' = TRUE
    /\ UNCHANGED <<globalVars, lpc, bindPort, bindI, boundPort, envVars, reqVars,
                   ready, handlerVars, histVars>>

BindOutcomes == {"ok", "inuse", "oserror", "exception"}

\* lines 99-119: one iteration of the bind loop; b is what HTTPServer(...) does
BindAttempt(b) ==
    /\ lpc = "binding"
    /\ bindI < max_retries
    /\ CASE b = "ok" ->
              /\ boundPort' = bindPort
              /\ current_callback_port' = bindPort
              /\ callback_server_ready' = TRUE
              /\ lpc' = "serving"
              /\ UNCHANGED <<bindPort, bindI>>
         [] b = "inuse" ->
              /\ bindPort' = bindPort + 1
              /\ bindI' = bindI + 1
              /\ lpc' = IF bindI + 1 < max_retries THEN "binding" ELSE "exhausted"
              /\ UNCHANGED <<boundPort, current_callback_port, callback_server_ready>>
         [] OTHER ->
              /\ callback_server_ready' = TRUE
              /\ lpc' = "failed"
              /\ UNCHANGED <<boundPort, current_callback_port, bindPort, bindI>>
    /\ UNCHANGED <<pending_requests, main_loop, mainPc, warned, envVars, reqVars, ready,
                   handlerVars, histVars>>

(***************************************************************************)
(* request_user_input (lines 199-247) with try_connect_extension          *)
(* (lines 152-196) inlined at its call (line 221).                         *)
(***************************************************************************)
UsedUuids == {u \in UuidSpace : \E r \in Reqs : pc[r] # "idle" /\ request_id[r] = ReqIdOf(u)}

\* lines 234-238: not connected: deregister and return the failure
GiveUp(r, err) ==
    /\ pending_requests' = RegistryPopDefault(pending_requests, request_id[r])
    /\ ret' = [ret EXCEPT ![r] = <<FALSE, ErrorMsg(err)>>]
    /\ pc' = [pc EXCEPT ![r] = "connect_failed"]

\* lines 157-174: a round starts: discovery, then the POST to the first candidate
StartRound(r, a) ==
    /\ attempt' = [attempt EXCEPT ![r] = a]
    /\ extension_ports' = [extension_ports EXCEPT ![r] =
                              PortsForRound(extension_ports[r], markerDir)]
    /\ offered' = [offered EXCEPT ![r] =
                      live \cap RangeOf(discover_extension_ports(markerDir))]
    /\ idx' = [idx EXCEPT ![r] = 1]
    /\ try_last_error' = [try_last_error EXCEPT ![r] = None]
    /\ callbackPort' = [callbackPort EXCEPT ![r] = current_callback_port]
    /\ pc' = [pc EXCEPT ![r] = "posting"]

\* line 218 after the body for attempt[r]: the next round, or the loop ends
\* without a connection (lines 234-238)
NextRoundOrGiveUp(r, err) ==
    IF HasNextAttempt(attempt[r])
    THEN /\ StartRound(r, attempt[r] + 1)
         /\ UNCHANGED <<pending_requests, ret>>
    ELSE /\ GiveUp(r, err)
         /\ try_last_error' = [try_last_error EXCEPT ![r] = None]
         /\ UNCHANGED <<attempt, extension_ports, idx, callbackPort, offered>>

\* lines 205-221, up to the first await: create, register, start round 1.
\* u is what uuid4().hex[:12] returns: any of its values, the code looks at
\* no earlier id (line 210 assigns whatever the dict holds under the key)
Register(r, u) ==
    /\ mainPc = "serving"
    /\ pc[r] = "idle"
    /\ \A q \in Reqs : q < r => pc[q] # "idle"
    /\ request_id' = [request_id EXCEPT ![r] = ReqIdOf(u)]
    /\ future' = [future EXCEPT ![r] = <<"pending">>]
    /\ pending_requests' = RegistryPut(pending_requests, ReqIdOf(u), r)
    /\ last_error' = [last_error EXCEPT ![r] = None]
    /\ StartRound(r, 1)
    /\ UNCHANGED <<current_callback_port, callback_server_ready, main_loop, bootVars,
                   envVars, ret, ready, handlerVars, accepted, slept, resolutions, acked,
                   observed>>

\* the same call when uuid4 returns a value no earlier request of the process got
Call(r, u) ==
    /\ u \notin UsedUuids
    /\ Register(r, u)

\* lines 165-196 and 221-247: the POST to the current candidate ends with
\* outcome o, and the coroutine runs on to its next await or to its return
PostResponse(r, o) ==
    LET port == extension_ports[r][idx[r]]
        err == ErrorAfter(o, port, try_last_error[r])
    IN
    /\ pc[r] = "posting"
    /\ port \in live => o = "accept"
    /\ told' = IF Reached(o) THEN [told EXCEPT ![r] = callbackPort[r]] ELSE told
    /\ accepted' = [accepted EXCEPT ![r] = @ \/ o = "accept"]
    /\ observed' = [observed EXCEPT ![r] = ErrorAfter(o, port, @)]
    /\ IF IsAccepted(o)
       THEN \* lines 180, 223-225, 240-247
            /\ try_last_error' = [try_last_error EXCEPT ![r] = None]
            /\ IF future[r] = <<"pending">>
               THEN /\ pc' = [pc EXCEPT ![r] = "awaiting"]
                    /\ ret' = ret
               ELSE /\ pc' = [pc EXCEPT ![r] = PcOfReturn(future[r])]
                    /\ ret' = [ret EXCEPT ![r] = AwaitReturn(future[r])]
            /\ UNCHANGED <<pending_requests, attempt, extension_ports, idx, last_error,
                           callbackPort, slept, offered>>
       ELSE IF idx[r] < Len(extension_ports[r])
       THEN \* line 162: the POST to the next candidate of this round
            /\ idx' = [idx EXCEPT ![r] = idx[r] + 1]
            /\ try_last_error' = [try_last_error EXCEPT ![r] = err]
            /\ callbackPort' = [callbackPort EXCEPT ![r] = current_callback_port]
            /\ UNCHANGED <<pending_requests, attempt, extension_ports, last_error, pc, ret,
                           slept, offered>>
       ELSE \* lines 196, 226-232: the round failed
            /\ last_error' = [last_error EXCEPT ![r] = err]
            /\ IF ShouldSleep(attempt[r])
               THEN /\ pc' = [pc EXCEPT ![r] = "sleeping"]
                    /\ slept' = [slept EXCEPT ![r] = slept[r] + RETRY_INTERVAL]
                    /\ try_last_error' = [try_last_error EXCEPT ![r] = None]
                    /\ UNCHANGED <<pending_requests, attempt, extension_ports, idx,
                                   callbackPort, ret, offered>>
               ELSE /\ NextRoundOrGiveUp(r, err)
                    /\ slept' = slept
    /\ UNCHANGED <<current_callback_port, callback_server_ready, main_loop, bootVars,
                   markerDir, live, request_id, future, ready, handlerVars, resolutions,
                   acked>>

\* line 230: asyncio.sleep(RETRY_INTERVAL) is over, the loop goes on
SleepDone(r) ==
    /\ pc[r] = "sleeping"
    /\ NextRoundOrGiveUp(r, last_error[r])
    /\ UNCHANGED <<current_callback_port, callback_server_ready, main_loop, bootVars,
                   envVars, request_id, future, last_error, ready, handlerVars, accepted,
                   slept, resolutions, acked, observed>>

\* lines 244-247: the awaited future is done, the coroutine resumes and returns
Resume(r) ==
    /\ pc[r] = "awaiting"
    /\ future[r] # <<"pending">>
    /\ pc' = [pc EXCEPT ![r] = PcOfReturn(future[r])]
    /\ ret' = [ret EXCEPT ![r] = AwaitReturn(future[r])]
    /\ UNCHANGED <<globalVars, bootVars, envVars, request_id, future, attempt,
                   extension_ports, idx, try_last_error, last_error, callbackPort, ready,
                   handlerVars, histVars>>

(***************************************************************************)
(* The event loop runs one callback scheduled by call_soon_threadsafe.    *)
(* Setting a future that is already done raises InvalidStateError inside  *)
(* the loop's callback, which the loop logs; the future is left as it is. *)
(***************************************************************************)
LoopRun ==
    /\ ready # <<>>
    /\ LET call == Head(ready)
       IN  IF future[call.fut] = <<"pending">>
           THEN /\ future' = [future EXCEPT ![call.fut] = FutureSet(future[call.fut], call)]
                /\ resolutions' = [resolutions EXCEPT ![call.fut] = resolutions[call.fut] + 1]
           ELSE UNCHANGED <<future, resolutions>>
    /\ ready' = Tail(ready)
    /\ UNCHANGED <<globalVars, bootVars, envVars, pc, request_id, attempt, extension_ports,
                   idx, try_last_error, last_error, callbackPort, ret, handlerVars,
                   accepted, slept, acked, observed, offered>>

(***************************************************************************)
(* CallbackHandler.do_POST (lines 54-90).  A callback is a path and a     *)
(* body; the body is "undecodable" (not UTF-8: line 57 raises outside the *)
(* try), "badjson" (json.loads raises), "nonobject" (JSON, but data.get   *)
(* raises) or an "object" with requestId (None when missing), userInput   *)
(* ("" when missing) and cancelled (False when missing).                  *)
(***************************************************************************)
\* the ids a sender can put in a callback: those some companion learnt together
\* with the port the listener is bound to, an unknown one, and none at all
SendableIds ==
    {request_id[r] : r \in {q \in Reqs : pc[q] # "idle" /\ told[q] = boundPort}}
        \cup {UnknownId, None}

\* what the sender of a callback sees: the kind of body it sent ("unread" for
\* a POST to another path), the requestId in it, and the status of the reply
\* (0: the connection is closed without a reply)
Reply(body, id, status) == [body |-> body, id |-> id, status |-> status]

HandlerIdle ==
    /\ hpc' = "idle"
    /\ h_request_id' = None
    /\ h_user_input' = <<>>
    /\ h_cancelled' = FALSE
    /\ h_future' = 0

\* lines 55 and 88-90: a POST to another path
ReceiveElsewhere ==
    /\ lpc = "serving"
    /\ hpc = "idle"
    /\ lastResp' = Reply("unread", None, 404)
    /\ HandlerIdle
    /\ UNCHANGED <<globalVars, bootVars, envVars, reqVars, ready, histVars>>

MalformedKinds == {"undecodable", "badjson", "nonobject"}

\* lines 56-61 and 83-87: a POST to /response whose body is no JSON object.
\* "undecodable": line 57 raises UnicodeDecodeError outside the try, the
\* exception leaves do_POST and no reply is written (status 0).
\* "badjson": line 60 raises; "nonobject": line 61 raises; both reply 400.
ReceiveMalformed(kind) ==
    /\ lpc = "serving"
    /\ hpc = "idle"
    /\ lastResp' = Reply(kind, None, IF kind = "undecodable" THEN 0 ELSE 400)
    /\ HandlerIdle
    /\ UNCHANGED <<globalVars, bootVars, envVars, reqVars, ready, histVars>>

\* lines 56-65 and 78-82: a POST to /response with a JSON object: parse it and
\* look the id up
Receive(id, text, cancelled) ==
    /\ lpc = "serving"
    /\ hpc = "idle"
    /\ id \in SendableIds
    /\ IF RegistryHas(pending_requests, id) /\ main_loop
       THEN \* line 65 holds
            /\ hpc' = "checked"
            /\ h_request_id' = id
            /\ h_user_input' = text
            /\ h_cancelled' = cancelled
            /\ UNCHANGED <<h_future, lastResp>>
       ELSE \* lines 78-82
            /\ lastResp' = Reply("object", id, 404)
            /\ HandlerIdle
    /\ UNCHANGED <<globalVars, bootVars, envVars, reqVars, ready, histVars>>

\* line 66: pending_requests.pop(request_id); a KeyError goes to lines 83-87
HandlerPop ==
    /\ hpc = "checked"
    /\ IF RegistryHas(pending_requests, h_request_id)
       THEN /\ h_future' = RegistryGet(pending_requests, h_request_id)
            /\ pending_requests' = RegistryPop(pending_requests, h_request_id)
            /\ hpc' = "popped"
            /\ UNCHANGED <<h_request_id, h_user_input, h_cancelled, lastResp>>
       ELSE /\ lastResp' = Reply("object", h_request_id, 400)
            /\ HandlerIdle
            /\ UNCHANGED pending_requests
    /\ UNCHANGED <<current_callback_port, callback_server_ready, main_loop, bootVars, envVars,
                   reqVars, ready, histVars>>

\* lines 68-77: hand the resolution to the event loop, reply 200
HandlerResolveDirect ==
    /\ hpc = "popped"
    /\ future' = [future EXCEPT ![h_future] =
                     FutureSet(@, Resolution(h_future, h_cancelled, h_user_input))]
    /\ resolutions' = [resolutions EXCEPT ![h_future] = @ + 1]
    /\ acked' = [acked EXCEPT ![h_future] =
                    Append(@, [cancelled |-> h_cancelled, text |-> h_user_input])]
    /\ lastResp' = Reply("object", h_request_id, 200)
    /\ HandlerIdle
    /\ UNCHANGED <<globalVars, bootVars, envVars, pc, request_id, attempt, extension_ports,
                   idx, try_last_error, last_error, callbackPort, ret, ready, accepted,
                   slept, observed, offered>>
HandlerResolve ==
    /\ hpc = "popped"
    /\ ready' = Append(ready, Resolution(h_future, h_cancelled, h_user_input))
    /\ acked' = [acked EXCEPT ![h_future] =
                    Append(@, [cancelled |-> h_cancelled, text |-> h_user_input])]
    /\ lastResp' = Reply("object", h_request_id, 200)
    /\ HandlerIdle
    /\ UNCHANGED <<globalVars, bootVars, envVars, reqVars, accepted, slept,
                   resolutions, observed, offered>>

(***************************************************************************)
(* Initial states and specifications.                                      *)
(***************************************************************************)
AbsentDir == [exists |-> FALSE, files |-> <<>>]

\* a directory of MaxFiles valid marker files, one port each
FullDir ==
    [exists |-> TRUE,
     files |-> [i \in 1..MaxFiles |->
                  [suffix |-> TRUE, kind |-> "object", port |-> DEFAULT_EXTENSION_PORT + i]]]

InitRequests ==
    /\ pending_requests = << >>
    /\ told = [r \in Reqs |-> 0]
    /\ live = {}
    /\ pc = [r \in Reqs |-> "idle"]
    /\ request_id = [r \in Reqs |-> None]
    /\ future = [r \in Reqs |-> <<"pending">>]
    /\ attempt = [r \in Reqs |-> 0]
    /\ extension_ports = [r \in Reqs |-> <<>>]
    /\ idx = [r \in Reqs |-> 0]
    /\ try_last_error = [r \in Reqs |-> None]
    /\ last_error = [r \in Reqs |-> None]
    /\ callbackPort = [r \in Reqs |-> 0]
    /\ ret = [r \in Reqs |-> <<>>]
    /\ ready = <<>>
    /\ hpc = "idle"
    /\ h_request_id = None
    /\ h_user_input = <<>>
    /\ h_cancelled = FALSE
    /\ h_future = 0
    /\ lastResp = Reply("none", None, 0)
    /\ accepted = [r \in Reqs |-> FALSE]
    /\ slept = [r \in Reqs |-> 0]
    /\ resolutions = [r \in Reqs |-> 0]
    /\ acked = [r \in Reqs |-> <<>>]
    /\ observed = [r \in Reqs |-> None]
    /\ offered = [r \in Reqs |-> {}]

\* the process at the start of main()
InitBoot ==
    /\ current_callback_port = CALLBACK_PORT_START
    /\ callback_server_ready = FALSE
    /\ main_loop = FALSE
    /\ mainPc = "init"
    /\ warned = FALSE
    /\ lpc = "notstarted"
    /\ bindPort = CALLBACK_PORT_START
    /\ bindI = 0
    /\ boundPort = 0
    /\ markerDir = AbsentDir
    /\ InitRequests

\* the process once main() runs the MCP server, with the listener bound after
\* one port in use (the state InitBoot reaches by MainStart, BindAttempt("inuse"),
\* BindAttempt("ok"), MainReady), and the marker directory one of dirs
InitServing(dirs) ==
    /\ bindI = 1
    /\ bindPort = CALLBACK_PORT_START + 1
    /\ boundPort = CALLBACK_PORT_START + 1
    /\ current_callback_port = CALLBACK_PORT_START + 1
    /\ callback_server_ready = TRUE
    /\ main_loop = TRUE
    /\ mainPc = "serving"
    /\ warned = FALSE
    /\ lpc = "serving"
    /\ markerDir \in dirs
    /\ InitRequests

Init == InitServing({AbsentDir, FullDir})

\* the steps of the callback listener once it serves
NextListener ==
    \/ ReceiveElsewhere
    \/ \E kind \in MalformedKinds : ReceiveMalformed(kind)
    \/ \E id \in SendableIds, text \in Texts, cancelled \in BOOLEAN :
          Receive(id, text, cancelled)
    \/ HandlerPop
    \/ HandlerResolve

\* the steps of the event loop for the callers in reqs, with companions whose
\* answers to /ask are among outs
NextLoop(reqs, outs) ==
    \/ \E r \in reqs, u \in UuidSpace : Call(r, u)
    \/ \E r \in reqs, o \in outs : PostResponse(r, o)
    \/ \E r \in reqs : SleepDone(r)
    \/ \E r \in reqs : Resume(r)
    \/ LoopRun

NextBoot ==
    \/ MainStart
    \/ MainReady
    \/ MainTimeout
    \/ \E b \in BindOutcomes : BindAttempt(b)
    \/ NextLoop({1}, {"accept", "timeout"})
    \/ NextListener

\* one caller, every kind of companion
Next == NextLoop({1}, Outcomes) \/ NextListener

Spec == Init /\ [][Next]_vars

\* What the scheduling guarantees: every POST ends (timeout=5.0, line 173),
\* every sleep ends, the event loop runs its ready callbacks and resumes a
\* coroutine whose future is done, and the handler thread runs on.  Nothing
\* is assumed of companions: no /ask need be accepted, no callback need come.
Fairness ==
    /\ WF_vars(\E o \in Outcomes : PostResponse(1, o))
    /\ WF_vars(SleepDone(1))
    /\ WF_vars(Resume(1))
    /\ WF_vars(LoopRun)
    /\ WF_vars(HandlerPop)
    /\ WF_vars(HandlerResolve)

\* one caller, every kind of companion, no marker directory, fair scheduling
FairSpec == InitServing({AbsentDir}) /\ [][Next]_vars /\ Fairness

\* every caller at once, companions that accept
NextMulti ==
    \/ \E r \in Reqs, u \in UuidSpace : Call(r, u)
    \/ \E r \in Reqs : PostResponse(r, "accept")
    \/ \E r \in Reqs : Resume(r)
    \/ LoopRun
    \/ NextListener

SpecMulti == InitServing({AbsentDir}) /\ [][NextMulti]_vars

SpecBoot == InitBoot /\ [][NextBoot]_vars

\* the marker files a directory can hold: any name, any content.  Of a JSON
\* object only its "port" matters: 0 (missing, null or zero: falsy), -1 (a
\* value that is truthy and no port number) or a port number.
MarkerFiles ==
    {[suffix |-> sf, kind |-> k, port |-> 0] : sf \in BOOLEAN, k \in {"garbage", "nonobject"}}
      \cup {[suffix |-> sf, kind |-> "object", port |-> pt] :
                sf \in BOOLEAN, pt \in {0, -1, DEFAULT_EXTENSION_PORT + 1}}

\* the states of PORT_FILE_DIR: absent, or a directory of up to MaxFiles files
MarkerDirs ==
    {AbsentDir} \cup
    {[exists |-> TRUE, files |-> fs] : fs \in UNION {[1..n -> MarkerFiles] : n \in 0..MaxFiles}}

\* one caller, any marker directory, candidates that cannot be posted to
NextDiscover ==
    \/ \E u \in UuidSpace : Call(1, u)
    \/ PostResponse(1, "exception")
    \/ SleepDone(1)

SpecDiscover == InitServing(MarkerDirs) /\ [][NextDiscover]_vars

\* the ports companions of this model listen on, and the marker file of one
CompanionPorts == {DEFAULT_EXTENSION_PORT + i : i \in 1..MaxFiles}
MarkerOf(p) == [suffix |-> TRUE, kind |-> "object", port |-> p]

\* a companion starts on port p: it writes its marker file into PORT_FILE_DIR
\* (lines 127-136 read it) and from now on accepts every /ask (lines 176-180)
CompanionStart(p) ==
    /\ p \notin live
    /\ live' = live \cup {p}
    /\ markerDir' = [exists |-> TRUE, files |-> Append(markerDir.files, MarkerOf(p))]
    /\ UNCHANGED <<globalVars, bootVars, told, reqVars, ready, handlerVars, histVars>>

\* the companion on port p stops and removes its marker file
CompanionStop(p) ==
    /\ p \in live
    /\ live' = live \ {p}
    /\ LET Others(f) == f.port # p
       IN  markerDir' = [exists |-> TRUE, files |-> SelectSeq(markerDir.files, Others)]
    /\ offered' = [r \in Reqs |-> offered[r] \ {p}]
    /\ UNCHANGED <<globalVars, bootVars, told, reqVars, ready, handlerVars, accepted, slept,
                   resolutions, acked, observed>>

\* one caller, companions that come and go; where none listens the connection
\* is refused
NextLive ==
    \/ \E u \in UuidSpace : Call(1, u)
    \/ \E o \in {"accept", "connect_error"} : PostResponse(1, o)
    \/ SleepDone(1)
    \/ \E p \in CompanionPorts : CompanionStart(p)
    \/ \E p \in CompanionPorts : CompanionStop(p)

SpecLive == InitServing({AbsentDir}) /\ [][NextLive]_vars

\* every caller at once, companions that accept, uuid4 free to return any value
NextIds ==
    \/ \E r \in Reqs, u \in UuidSpace : Register(r, u)
    \/ \E r \in Reqs : PostResponse(r, "accept")
    \/ \E r \in Reqs : Resume(r)
    \/ LoopRun
    \/ NextListener

SpecIds == InitServing({AbsentDir}) /\ [][NextIds]_vars

(***************************************************************************)
(* Properties.                                                             *)
(***************************************************************************)
Returned == {"answered", "cancelled", "connect_failed"}

\* C1: a request's future is set at most once: at most one callback per request
\* is answered 200, a callback carrying the id of a request that already had
\* its 200 never passes the lookup of line 65 again and is answered 404, and a
\* future that is set is never set again or overwritten.
C1_ResolvedAtMostOnce ==
    /\ [](\A r \in Reqs :
            /\ resolutions[r] <= 1
            /\ Len(acked[r]) <= 1
            /\ ~(acked[r] # <<>> /\ hpc # "idle" /\ h_request_id = request_id[r])
            /\ (acked[r] # <<>> /\ hpc = "idle" /\ lastResp.id = request_id[r])
                   => lastResp.status \in {200, 404})
    /\ [][\A r \in Reqs :
            /\ future[r] # <<"pending">> => future'[r] = future[r]
            /\ (acked[r] # <<>> /\ lastResp' # lastResp /\ lastResp'.id = request_id[r])
                   => (lastResp'.status = 404
                       /\ UNCHANGED <<pending_requests, future, ready, resolutions, acked>>)
         ]_vars

\* C1 witness: after the callback that resolved request 1, a second callback
\* with the same id was answered 404 and the future was set once.
C1_Witness ==
    /\ acked[1] # <<>>
    /\ resolutions[1] = 1
    /\ lastResp = Reply("object", request_id[1], 404)

\* C2: an id is in pending_requests only while its request is connecting
\* (posting or sleeping between rounds) or awaiting the answer; a request that
\* returned (connect failed, answered, cancelled) has no entry.
C2_RegistryOnlyWhilePending ==
    /\ \A id \in DOMAIN pending_requests :
          LET r == pending_requests[id]
          IN  /\ r \in Reqs
              /\ request_id[r] = id
              /\ pc[r] \in {"posting", "sleeping", "awaiting"}
    /\ \A r \in Reqs :
          pc[r] \in Returned => request_id[r] \notin DOMAIN pending_requests

\* C2 witness: the connect-failure path, for a request no companion ever heard
\* of (so only line 235 can have removed its entry).
C2_Witness ==
    /\ pc[1] = "connect_failed"
    /\ told[1] = 0
    /\ request_id[1] \notin DOMAIN pending_requests

\* C3: a request that no candidate accepts never awaits its future, and its
\* coroutine ends: it returns the connect failure after exactly 5 rounds, with
\* its id out of pending_requests.  (Under Fairness: each POST and each sleep
\* ends.)
C3_ConnectFailTerminates ==
    /\ [](\A r \in Reqs :
            /\ pc[r] = "awaiting" => accepted[r]
            /\ pc[r] = "connect_failed" =>
                  /\ attempt[r] = 5
                  /\ ret[r] = <<FALSE, ErrorMsg(last_error[r])>>
                  /\ request_id[r] \notin DOMAIN pending_requests)
    /\ \A r \in Reqs :
          (pc[r] \in {"posting", "sleeping"}) ~> (accepted[r] \/ pc[r] = "connect_failed")

\* C3 witness: no marker directory, so discovery gave the default port alone;
\* no companion was reached in any of the 5 rounds; the request ended failed.
C3_Witness ==
    /\ markerDir = AbsentDir
    /\ pc[1] = "connect_failed"
    /\ extension_ports[1] = <<DEFAULT_EXTENSION_PORT>>
    /\ told[1] = 0
    /\ ~accepted[1]
    /\ attempt[1] = 5
    /\ ret[1] = <<FALSE, ErrorMsg(<<"cannot connect to port ", "23983">>)>>

\* C6: at most 5 rounds; a sleep of RETRY_INTERVAL after every failed round but
\* the fifth (so slept is RETRY_INTERVAL times the failed rounds before the
\* current one); and once a candidate accepted, the request is never posting
\* or sleeping again and has not slept since.
C6_BoundedRetry ==
    \A r \in Reqs :
        /\ attempt[r] <= 5
        /\ pc[r] = "posting" =>
              /\ attempt[r] >= 1
              /\ idx[r] \in 1..Len(extension_ports[r])
              /\ slept[r] = RETRY_INTERVAL * (attempt[r] - 1)
              /\ ~accepted[r]
        /\ pc[r] = "sleeping" =>
              /\ attempt[r] \in 1..4
              /\ slept[r] = RETRY_INTERVAL * attempt[r]
              /\ ~accepted[r]
        /\ pc[r] = "connect_failed" =>
              /\ attempt[r] = 5
              /\ slept[r] = RETRY_INTERVAL * 4
              /\ ~accepted[r]
        /\ accepted[r] =>
              /\ pc[r] \in {"awaiting", "answered", "cancelled"}
              /\ slept[r] = RETRY_INTERVAL * (attempt[r] - 1)

\* C6 witness: accepted by the first of two candidates in round 3, after two
\* failed rounds and two sleeps; the second candidate of round 3 is not tried.
C6_Witness ==
    /\ accepted[1]
    /\ attempt[1] = 3
    /\ Len(extension_ports[1]) = 2
    /\ idx[1] = 1
    /\ slept[1] = 10
    /\ pc[1] = "awaiting"

\* C4: a request that returned an answer returned <<TRUE, t>> for the text t of
\* the one callback answered 200 for it, which was not a cancellation; and an
\* accepted request whose callback (cancelled false, userInput t) was answered
\* 200 does return <<TRUE, t>>.  (Under Fairness: the loop runs the scheduled
\* call and resumes the coroutine.)
C4_AnsweredWithCallbackText ==
    /\ [](\A r \in Reqs :
            pc[r] = "answered" =>
                /\ Len(acked[r]) = 1
                /\ ~acked[r][1].cancelled
                /\ accepted[r]
                /\ ret[r] = <<TRUE, acked[r][1].text>>)
    /\ \A r \in Reqs, t \in Texts :
          (accepted[r] /\ acked[r] = <<[cancelled |-> FALSE, text |-> t]>>)
              ~> (pc[r] = "answered" /\ ret[r] = <<TRUE, t>>)

\* C4 witness: accepted by the first candidate of the first round, then the
\* callback {"userInput": "go on", "cancelled": false}: returned (True, "go on").
C4_Witness ==
    /\ pc[1] = "answered"
    /\ attempt[1] = 1
    /\ idx[1] = 1
    /\ slept[1] = 0
    /\ acked[1] = <<[cancelled |-> FALSE, text |-> <<"go on">>]>>
    /\ ret[1] = <<TRUE, <<"go on">>>>

\* the candidate ports and the values last_error can take with them
CandidatePorts == {DEFAULT_EXTENSION_PORT + i : i \in 0..MaxFiles}
PossibleErrors == {None} \cup {ErrorAfter(o, p, None) : o \in Outcomes, p \in CandidatePorts}
AnsweredOutcomes == {<<TRUE, t>> : t \in Texts}
ConnectFailedOutcomes == {<<FALSE, ErrorMsg(e)>> : e \in PossibleErrors}

\* C5: an accepted request whose callback with cancelled true was answered 200
\* returns, and what it returns is <<FALSE, CancelText>>, which is none of the
\* answered outcomes and none of the connect-failure outcomes.
C5_CancelledOutcome ==
    /\ [](\A r \in Reqs :
            /\ (pc[r] \in Returned /\ accepted[r] /\ acked[r] # <<>> /\ acked[r][1].cancelled)
                  => /\ pc[r] = "cancelled"
                     /\ ret[r] = <<FALSE, CancelText>>
                     /\ ret[r] \notin AnsweredOutcomes \cup ConnectFailedOutcomes
            /\ pc[r] = "answered" => ret[r] \in AnsweredOutcomes
            /\ pc[r] = "connect_failed" => ret[r] \in ConnectFailedOutcomes)
    /\ \A r \in Reqs :
          (accepted[r] /\ acked[r] # <<>> /\ acked[r][1].cancelled) ~> (pc[r] = "cancelled")

\* C5 witness: accepted, then {"cancelled": true}: the cancellation was returned.
C5_Witness ==
    /\ pc[1] = "cancelled"
    /\ accepted[1]
    /\ acked[1] = <<[cancelled |-> TRUE, text |-> <<>>]>>
    /\ ret[1] = <<FALSE, CancelText>>

\* C7: a callback whose body is not valid structured data is answered 400 and
\* changes neither pending_requests nor any future nor the loop's queue; and a
\* well-formed callback for an id that is in pending_requests always passes
\* the lookup, whatever malformed callbacks came before.
C7_MalformedAnswered400 ==
    /\ [](lastResp.body \in MalformedKinds => lastResp.status = 400)
    /\ [][(lastResp' # lastResp /\ lastResp'.body \in MalformedKinds)
             => UNCHANGED <<pending_requests, future, ready, hpc>>]_vars
    /\ [][\A r \in Reqs :
            (hpc = "idle" /\ request_id[r] \in DOMAIN pending_requests
                /\ lastResp' # lastResp)
                => lastResp'.id # request_id[r]]_vars

\* C8: with several requests pending, the handling of a callback carrying id X
\* touches X alone.  A callback whose id is not in pending_requests is answered
\* 404 and changes nothing; the handler removes no entry but X's, hands the
\* loop a call for X's future only, and never sets a future itself; the loop
\* sets the one future the handed call names; every other entry and future
\* stays as it was.
HandlerStep == hpc' # hpc \/ lastResp' # lastResp
CallbackIdOfStep == IF hpc = "idle"
                    THEN (IF hpc' = "idle" THEN lastResp'.id ELSE h_request_id')
                    ELSE h_request_id
C8_CallbackTouchesOnlyItsRequest ==
    /\ [][HandlerStep =>
            /\ future' = future
            /\ \A k \in DOMAIN pending_requests :
                  k # CallbackIdOfStep =>
                      k \in DOMAIN pending_requests' /\ pending_requests'[k] = pending_requests[k]
            /\ DOMAIN pending_requests' \subseteq DOMAIN pending_requests
            /\ ready' # ready =>
                  /\ Len(ready') = Len(ready) + 1
                  /\ SubSeq(ready', 1, Len(ready)) = ready
                  /\ request_id[ready'[Len(ready')].fut] = CallbackIdOfStep
                  /\ CallbackIdOfStep \notin DOMAIN pending_requests'
            /\ (hpc = "idle" /\ CallbackIdOfStep \notin DOMAIN pending_requests
                   /\ lastResp'.body = "object")
                  => /\ lastResp'.status = 404
                     /\ hpc' = "idle"
                     /\ UNCHANGED <<pending_requests, ready>>
         ]_vars
    /\ [][\A r \in Reqs :
            future'[r] # future[r] =>
                /\ ready # <<>>
                /\ Head(ready).fut = r
                /\ ready' = Tail(ready)
                /\ UNCHANGED pending_requests
                /\ \A q \in Reqs \ {r} : future'[q] = future[q]
         ]_vars

\* C8 witness: two requests awaiting at once; the callback for the first was
\* answered 200 and the first returned, the second still awaits, registered.
C8_Witness ==
    /\ pc[1] = "answered"
    /\ lastResp = Reply("object", request_id[1], 200)
    /\ pc[2] = "awaiting"
    /\ future[2] = <<"pending">>
    /\ DOMAIN pending_requests = {request_id[2]}

\* C9: a callback for id X that finds X already removed by the coroutine's
\* deregistration on connect failure is answered 404, and X's future is set
\* at most once, whatever the interleaving of lines 65-66 with line 235.
C9_RaceLoserNotFound ==
    \A r \in Reqs :
        /\ resolutions[r] <= 1
        /\ (pc[r] = "connect_failed" /\ acked[r] = <<>> /\ lastResp.id = request_id[r])
              => lastResp.status = 404

\* C10: when the listener ended without a bound socket, no request is left
\* awaiting a future that no callback can ever set.
C10_NoWaitWithoutListener ==
    lpc \in {"failed", "exhausted"} => \A r \in Reqs : pc[r] # "awaiting"

\* C11: no two requests that are pending at the same time (connecting or
\* awaiting) carry the same id, so that registering one never replaces the
\* entry of the other in pending_requests.
C11_PendingIdsDistinct ==
    \A r1, r2 \in Reqs :
        (r1 # r2 /\ pc[r1] \in {"posting", "sleeping", "awaiting"}
                 /\ pc[r2] \in {"posting", "sleeping", "awaiting"})
            => request_id[r1] # request_id[r2]

\* a marker file that names a port: its name ends with ".port" and it holds a
\* JSON object whose "port" is a port number
IsPortNumber(n) == n \in 1..65535
ValidMarker(f) == f.suffix /\ f.kind = "object" /\ IsPortNumber(f.port)
ValidMarkers(dir) == IF dir.exists THEN SelectSeq(dir.files, ValidMarker) ELSE <<>>

\* C12: the candidates of a round are the default port alone when the marker
\* directory is absent or holds no valid marker file, and otherwise the ports
\* of its valid marker files, one each, every other file skipped; never none.
C12_DiscoverCandidates ==
    \A r \in Reqs :
        pc[r] \in {"posting", "sleeping"} =>
            LET v == ValidMarkers(markerDir)
            IN  /\ extension_ports[r] # <<>>
                /\ IF v = <<>>
                   THEN extension_ports[r] = <<DEFAULT_EXTENSION_PORT>>
                   ELSE /\ Len(extension_ports[r]) = Len(v)
                        /\ \A i \in 1..Len(v) : extension_ports[r][i] = v[i].port

\* C13: a request's future is resolved only once the request awaits it, that
\* is after some candidate accepted the request, never while the request is
\* still connecting; and a request whose callback was answered 200 does not
\* end as a connect failure.
C13_ResolvedOnlyWhileAwaiting ==
    \A r \in Reqs :
        /\ acked[r] # <<>> => accepted[r]
        /\ future[r] # <<"pending">> => accepted[r]
        /\ pc[r] \in {"posting", "sleeping"} => (acked[r] = <<>> /\ future[r] = <<"pending">>)
        /\ pc[r] = "connect_failed" => acked[r] = <<>>

\* C14: the callbackPort of every /ask body, in flight or received by a
\* companion, is the port the callback listener's socket is bound to.
C14_CallbackPortIsBoundPort ==
    \A r \in Reqs :
        /\ pc[r] = "posting" => callbackPort[r] = boundPort
        /\ told[r] # 0 => told[r] = boundPort

\* C15: the detail of a connect failure is the latest error any candidate of
\* any round gave (connection refused, timed out, companion error, other
\* exception); a later candidate or round without an error does not erase it.
C15_LastErrorKept ==
    \A r \in Reqs :
        pc[r] = "connect_failed" => ret[r] = <<FALSE, ErrorMsg(observed[r])>>

\* C16: the bind loop tries CALLBACK_PORT_START first and the next port after
\* each address-in-use failure, at most 50 times, and whenever it has ended
\* (serving on the port it bound, failed on another error, or out of attempts)
\* the readiness event is set.
C16_BindEndsWithReadiness ==
    /\ bindI <= 50
    /\ bindPort = CALLBACK_PORT_START + bindI
    /\ lpc = "serving" => (boundPort = bindPort /\ current_callback_port = bindPort)
    /\ lpc \in {"serving", "failed", "exhausted"} => callback_server_ready

\* C17: every round runs discovery anew: the candidates a round starts with
\* are those of the marker directory as it is then, whatever the round before
\* used; a companion that is discoverable and accepting when a round starts
\* and stays so is among the candidates still to be tried while the round
\* goes on, and the round does not fail, so the request is accepted in it.
C17_DiscoveryEveryRound ==
    /\ [](\A r \in Reqs :
            /\ pc[r] = "posting" =>
                  offered[r] \subseteq {extension_ports[r][i] : i \in idx[r]..Len(extension_ports[r])}
            /\ pc[r] \in {"sleeping", "connect_failed"} => offered[r] = {})
    /\ [][\A r \in Reqs :
            (attempt'[r] # attempt[r])
                => extension_ports'[r] = discover_extension_ports(markerDir)]_vars

\* C17 witness: no companion in rounds 1 and 2; one started during the second
\* sleep, was discovered by round 3 and accepted the request in it.
C17_Witness ==
    /\ pc[1] = "awaiting"
    /\ attempt[1] = 3
    /\ slept[1] = 10
    /\ offered[1] # {}
    /\ extension_ports[1][idx[1]] \in offered[1]
    /\ observed[1] = <<"cannot connect to port ", "23983">>

\* C18: a request goes on to await its answer only after a candidate answered
\* 200 with a true success.  Every other end of a POST (200 without the flag,
\* another status, a companion error, a refused connection, a timeout, any
\* exception) leaves it not accepted: the same round goes on with the next
\* candidate, and after the last candidate the round has failed.
C18_AcceptedOnlyWithFlag ==
    /\ [](\A r \in Reqs : pc[r] \in {"awaiting", "answered", "cancelled"} => accepted[r])
    /\ [][\A r \in Reqs :
            (pc[r] = "posting"
                /\ (pc'[r] # pc[r] \/ idx'[r] # idx[r] \/ attempt'[r] # attempt[r]))
            => IF accepted'[r]
               THEN /\ pc'[r] \in {"awaiting", "answered", "cancelled"}
                    /\ idx'[r] = idx[r] /\ attempt'[r] = attempt[r]
               ELSE IF idx[r] < Len(extension_ports[r])
               THEN /\ pc'[r] = "posting"
                    /\ idx'[r] = idx[r] + 1
                    /\ attempt'[r] = attempt[r]
                    /\ extension_ports'[r] = extension_ports[r]
               ELSE /\ pc'[r] \in {"sleeping", "connect_failed"}
                    /\ attempt'[r] = attempt[r]
         ]_vars

\* C18 witness: the first candidate of round 1 received the /ask and answered
\* without an error being recorded (200 without the flag, or another status);
\* the request is not accepted and the POST to the second candidate is under way.
C18_Witness ==
    /\ pc[1] = "posting"
    /\ attempt[1] = 1
    /\ idx[1] = 2
    /\ told[1] # 0
    /\ observed[1] = None
    /\ ~accepted[1]

\* C19: a request that awaits its answer stops awaiting only by returning the
\* answer or the cancellation of the one callback answered 200 for it, and
\* that callback carried the request's own id; its future is set only after
\* such a callback.  A callback with another request's id, and whatever the
\* other requests do, leaves it awaiting.
C19_WaitEndsOnlyByOwnCallback ==
    /\ [](\A r \in Reqs :
            (pc[r] = "awaiting" /\ acked[r] = <<>>) => future[r] = <<"pending">>)
    /\ [][\A r \in Reqs :
            /\ (pc[r] = "awaiting" /\ pc'[r] # "awaiting") =>
                  /\ Len(acked[r]) = 1
                  /\ pc'[r] = (IF acked[r][1].cancelled THEN "cancelled" ELSE "answered")
                  /\ ret'[r] = (IF acked[r][1].cancelled
                                 THEN <<FALSE, CancelText>>
                                 ELSE <<TRUE, acked[r][1].text>>)
            /\ acked'[r] # acked[r] =>
                  /\ h_request_id = request_id[r]
                  /\ lastResp' = Reply("object", request_id[r], 200)
            /\ future'[r] # future[r] => acked[r] # <<>>
         ]_vars

\* C19 witness: two requests awaited; the callback with the second one's id
\* and cancelled true was answered 200 and ended the second wait; the first
\* request awaits on, its future pending.
C19_Witness ==
    /\ pc[1] = "awaiting"
    /\ future[1] = <<"pending">>
    /\ acked[1] = <<>>
    /\ pc[2] = "cancelled"
    /\ acked[2] = <<[cancelled |-> TRUE, text |-> <<"go on">>]>>
    /\ lastResp = Reply("object", request_id[2], 200)

\* the calls in the loop's ready queue that are for request r's future
QueuedFor(r) == {i \in 1..Len(ready) : ready[i].fut = r}

\* C20: the handler thread never sets a future.  For each callback it answers
\* 200 it appends exactly one call for that request's future to the event
\* loop's queue (set_exception for a cancellation, set_result otherwise); a
\* future changes only when the loop takes the call at the head of its queue,
\* which names that future; and every call handed over is either still queued
\* or was applied, once.
C20_ResolutionHandedToLoop ==
    /\ [](\A r \in Reqs :
            /\ resolutions[r] <= 1
            /\ Len(acked[r]) = resolutions[r] + Cardinality(QueuedFor(r)))
    /\ [][/\ HandlerStep => future' = future
          /\ \A r \in Reqs :
                acked'[r] # acked[r] =>
                    /\ Len(ready') = Len(ready) + 1
                    /\ SubSeq(ready', 1, Len(ready)) = ready
                    /\ ready'[Len(ready')].fut = r
                    /\ ready'[Len(ready')].kind =
                          (IF h_cancelled THEN "set_exception" ELSE "set_result")
          /\ Len(ready') > Len(ready) => \E r \in Reqs : Len(acked'[r]) = Len(acked[r]) + 1
          /\ \A r \in Reqs :
                future'[r] # future[r] =>
                    /\ ready # <<>>
                    /\ Head(ready).fut = r
                    /\ ready' = Tail(ready)
                    /\ future[r] = <<"pending">>
                    /\ resolutions'[r] = resolutions[r] + 1
                    /\ UNCHANGED <<hpc, lastResp, pending_requests>>
         ]_vars

\* C20 witness: the callback for request 1 was answered 200, the loop has
\* applied the call handed over, and the coroutine has not resumed yet.
C20_Witness ==
    /\ pc[1] = "awaiting"
    /\ acked[1] = <<[cancelled |-> FALSE, text |-> <<"go on">>]>>
    /\ ready = <<>>
    /\ resolutions[1] = 1
    /\ future[1] = <<"result", <<"go on">>>>
====
